---- MODULE Spec2Model ----
(***************************************************************************)
(* BIGHORN B2B aggregate discount function.                                *)
(*                                                                         *)
(* Two engines live in the repository:                                     *)
(*   - the percent-differential engine (src/unnamed/part_000): run,        *)
(*     getConfig, getCatalogType, getTierForQuantity,                      *)
(*     calculateDifferenceDiscount, DEFAULT_CONFIG;                        *)
(*   - the price-anchored engine (src/extensions/b2b-test/src/run.js),     *)
(*     whose definitions carry the prefix PA_ here.                        *)
(*                                                                         *)
(* JavaScript numbers are modelled as exact rationals n/d together with    *)
(* the special values NaN, +Infinity, -Infinity and undefined, so that     *)
(* division by zero, missing fields and parse failures behave as in the    *)
(* code.  Binary rounding error of doubles (about 1e-16 relative) is not   *)
(* modelled.                                                               *)
(***************************************************************************)
EXTENDS Integers, Sequences, FiniteSets, TLC

VARIABLES
    engine,         \* which engine the evaluation under study runs: "diff" or "price"
    input,          \* the input record handed to run
    pc,             \* "ready" before the first evaluation, "done" after it
    result,         \* outcome of the latest evaluation of input
    firstResult,    \* outcome of the first evaluation of input
    runs,           \* number of evaluations of input so far
    otherRuns,      \* number of evaluations of other carts so far
    defaultConfig,  \* the module-level DEFAULT_CONFIG object of part_000
    calcArgs,       \* arguments of a calculator call
    calcResult,     \* [done, d]: value returned by the calculator call
    tierArgs,       \* arguments of a getTierForQuantity call
    tierResult      \* [done, found, tier, tiers]: returned tier, and the list after the call

vars == <<engine, input, pc, result, firstResult, runs, otherRuns, defaultConfig,
          calcArgs, calcResult, tierArgs, tierResult>>

runVars == <<engine, input, pc, result, firstResult, runs, otherRuns, defaultConfig>>
calcVars == <<calcArgs, calcResult>>
tierVars == <<tierArgs, tierResult>>

(***************************************************************************)
(* Bounds of the model.                                                    *)
(***************************************************************************)
MaxLines == 2        \* cart lines per cart
MaxTiers == 3        \* tiers per table in the resolver study
MaxRuns == 2         \* evaluations of the cart under study
MaxOtherRuns == 1    \* interleaved evaluations of other carts
GridDen == 2         \* percent grid of the calculator study: multiples of 1/GridDen

(***************************************************************************)
(* JavaScript Number values.                                               *)
(***************************************************************************)
Abs(x) == IF x < 0 THEN -x ELSE x

RECURSIVE GCD(_, _)
GCD(a, b) == IF b = 0 THEN a ELSE GCD(b, a % b)

\* The rational n/d in lowest terms with a positive denominator (d # 0).
Num(n, d) ==
    LET g == GCD(Abs(n), Abs(d))
        s == IF d < 0 THEN -1 ELSE 1
    IN  [t |-> "num", n |-> s * (n \div g), d |-> s * (d \div g)]

NaN == [t |-> "nan", n |-> 0, d |-> 1]
PosInf == [t |-> "inf", n |-> 1, d |-> 1]
NegInf == [t |-> "ninf", n |-> -1, d |-> 1]
Undefined == [t |-> "undef", n |-> 0, d |-> 1]
Zero == Num(0, 1)
One == Num(1, 1)
Hundred == Num(100, 1)
Int2Num(i) == Num(i, 1)
\* A decimal percentage or amount written with two fraction digits, e.g. Dec2(1407) = 14.07.
Dec2(h) == Num(h, 100)

IsNum(x) == x.t = "num"
IsNaNish(x) == x.t \in {"nan", "undef"}     \* ToNumber(undefined) is NaN
Sign(x) == IF x.n > 0 THEN 1 ELSE IF x.n < 0 THEN -1 ELSE 0
InfOfSign(s) == IF s > 0 THEN PosInf ELSE NegInf
Rank(x) == IF x.t = "inf" THEN 1 ELSE IF x.t = "ninf" THEN -1 ELSE 0
LCM(a, b) == (a \div GCD(a, b)) * b

\* x < y, x <= y, x > y, x >= y, x === y of JavaScript: false when either side is NaN.
JsLt(x, y) ==
    /\ ~IsNaNish(x)
    /\ ~IsNaNish(y)
    /\ \/ Rank(x) < Rank(y)
       \/ /\ IsNum(x)
          /\ IsNum(y)
          /\ LET l == LCM(x.d, y.d) IN x.n * (l \div x.d) < y.n * (l \div y.d)
JsEq(x, y) == ~IsNaNish(x) /\ ~IsNaNish(y) /\ x = y
JsLe(x, y) == JsLt(x, y) \/ JsEq(x, y)
JsGt(x, y) == JsLt(y, x)
JsGe(x, y) == JsLe(y, x)
JsStrictEq(x, y) == IF x.t = "undef" \/ y.t = "undef" THEN x.t = y.t ELSE JsEq(x, y)

JsNeg(x) ==
    CASE x.t = "num" -> Num(-x.n, x.d)
      [] x.t = "inf" -> NegInf
      [] x.t = "ninf" -> PosInf
      [] OTHER -> NaN

JsAdd(x, y) ==
    IF IsNaNish(x) \/ IsNaNish(y) THEN NaN
    ELSE IF IsNum(x) /\ IsNum(y)
         THEN LET l == LCM(x.d, y.d) IN Num(x.n * (l \div x.d) + y.n * (l \div y.d), l)
    ELSE IF IsNum(x) THEN y
    ELSE IF IsNum(y) THEN x
    ELSE IF x.t = y.t THEN x ELSE NaN

JsSub(x, y) == JsAdd(x, JsNeg(y))

JsMul(x, y) ==
    IF IsNaNish(x) \/ IsNaNish(y) THEN NaN
    ELSE IF IsNum(x) /\ IsNum(y)
         THEN LET g1 == GCD(Abs(x.n), y.d)
                  g2 == GCD(Abs(y.n), x.d)
              IN  Num((x.n \div g1) * (y.n \div g2), (x.d \div g2) * (y.d \div g1))
    ELSE IF Sign(x) * Sign(y) = 0 THEN NaN
    ELSE InfOfSign(Sign(x) * Sign(y))

JsDiv(x, y) ==
    IF IsNaNish(x) \/ IsNaNish(y) THEN NaN
    ELSE IF IsNum(x) /\ IsNum(y)
         THEN IF y.n = 0
              THEN IF x.n = 0 THEN NaN ELSE InfOfSign(Sign(x))
              ELSE JsMul(x, Num(y.d, y.n))
    ELSE IF IsNum(y) THEN InfOfSign(Sign(x) * (IF Sign(y) < 0 THEN -1 ELSE 1))
    ELSE IF IsNum(x) THEN Zero
    ELSE NaN

\* Math.round: the nearest integer, halves towards +Infinity.
MathRound(x) ==
    IF IsNum(x)
    THEN Num((x.n \div x.d) + (IF 2 * (x.n % x.d) >= x.d THEN 1 ELSE 0), 1)
    ELSE IF x.t = "undef" THEN NaN ELSE x

\* Strings: a metafield value or money amount as the host delivers it.
\*   k = "missing": the field (or an object on the way to it) is absent
\*   k = "empty":   the empty string
\*   k = "text":    a non-empty string that does not start with a number
\*   k = "dec":     a decimal numeral of value v
NoStr == [k |-> "missing", v |-> Zero]
TextStr == [k |-> "text", v |-> Zero]
DecStr(v) == [k |-> "dec", v |-> v]
StrTruthy(s) == s.k \in {"text", "dec"}

\* parseFloat(s)
parseFloat(s) == IF s.k = "dec" THEN s.v ELSE NaN

\* Number.prototype.toString for radix 10: sign, integer part and the fraction digits,
\* without trailing zeros; 17 fraction digits at most.
RECURSIVE FracDigits(_, _, _)
FracDigits(r, d, left) ==
    IF r = 0 \/ left = 0 THEN <<>>
    ELSE <<(10 * r) \div d>> \o FracDigits((10 * r) % d, d, left - 1)

toString(x) ==
    IF IsNum(x)
    THEN [k |-> "dec", neg |-> x.n < 0, whole |-> Abs(x.n) \div x.d,
          frac |-> FracDigits(Abs(x.n) % x.d, x.d, 17)]
    ELSE [k |-> x.t, neg |-> FALSE, whole |-> 0, frac |-> <<>>]

JsAbs(x) == IF JsLt(x, Zero) THEN JsNeg(x) ELSE x

(***************************************************************************)
(* Tiers.  A tier object carries the fields of both configuration formats: *)
(* min_quantity / discount_percent (part_000) and min / percent (run.js);  *)
(* a field the document does not give is undefined.                        *)
(***************************************************************************)
Tier(q, p) == [min_quantity |-> q, discount_percent |-> p, min |-> Undefined, percent |-> Undefined]
PA_Tier(q, p) == [min_quantity |-> Undefined, discount_percent |-> Undefined, min |-> q, percent |-> p]
NoTier == Tier(Undefined, Undefined)

\* The value of a "tiers" property: absent, a list of tiers, or a non-list (a number).
TiersAbsent == [k |-> "absent", items |-> <<>>]
TiersNumber == [k |-> "number", items |-> <<>>]
TiersList(items) == [k |-> "list", items |-> items]

(***************************************************************************)
(* Percent-differential engine (src/unnamed/part_000).                     *)
(***************************************************************************)

\* A plausible slip: the comparator the other way round, a.min_quantity - b.min_quantity.
AscendingCompareTiers(a, b) == JsSub(a.min_quantity, b.min_quantity)

\* The comparator (a, b) => b.min_quantity - a.min_quantity.
CompareTiers(a, b) == JsSub(b.min_quantity, a.min_quantity)

\* Array.prototype.sort with that comparator: a stable sort; x goes before the first
\* element e with CompareTiers(x, e) < 0 (a NaN comparison result counts as 0).
RECURSIVE InsertTier(_, _)
InsertTier(x, s) ==
    IF s = <<>> THEN <<x>>
    ELSE IF JsLt(CompareTiers(x, Head(s)), Zero) THEN <<x>> \o s
    ELSE <<Head(s)>> \o InsertTier(x, Tail(s))

RECURSIVE SortTiersFrom(_, _)
SortTiersFrom(s, acc) ==
    IF s = <<>> THEN acc ELSE SortTiersFrom(Tail(s), InsertTier(Head(s), acc))

SortTiers(s) == SortTiersFrom(s, <<>>)

\* A plausible slip: tiers.sort(...) without the spread, which sorts the caller's list.
TiersSortedInPlace(tiers) == SortTiers(tiers)

\* The caller's list after [...tiers].sort(...): the spread copies, so it is untouched.
TiersAfterSort(tiers) == tiers

\* A plausible slip: quantity > tier.min_quantity in the loop.
RECURSIVE StrictFirstTierMet(_, _)
StrictFirstTierMet(sorted, quantity) ==
    IF sorted = <<>> THEN [found |-> FALSE, tier |-> NoTier]
    ELSE IF JsGt(quantity, Head(sorted).min_quantity)
         THEN [found |-> TRUE, tier |-> Head(sorted)]
    ELSE StrictFirstTierMet(Tail(sorted), quantity)

\* The first tier of the sorted list with quantity >= tier.min_quantity.
RECURSIVE FirstTierMet(_, _)
FirstTierMet(sorted, quantity) ==
    IF sorted = <<>> THEN [found |-> FALSE, tier |-> NoTier]
    ELSE IF JsGe(quantity, Head(sorted).min_quantity)
         THEN [found |-> TRUE, tier |-> Head(sorted)]
    ELSE FirstTierMet(Tail(sorted), quantity)

\* getTierForQuantity(tiers, quantity): spreading a non-iterable throws a TypeError.
getTierForQuantity(tiers, quantity) ==
    IF tiers.k # "list"
    THEN [threw |-> TRUE, found |-> FALSE, tier |-> NoTier, tiers |-> tiers]
    ELSE LET hit == FirstTierMet(SortTiers(tiers.items), quantity)
         IN  [threw |-> FALSE, found |-> hit.found, tier |-> hit.tier,
              tiers |-> TiersList(TiersAfterSort(tiers.items))]

\* A plausible slip: the difference of the two percentages.
AdditiveDifferenceDiscount(aggregateDiscountPercent, perSkuDiscountPercent) ==
    IF JsLe(aggregateDiscountPercent, perSkuDiscountPercent) THEN Zero
    ELSE JsSub(aggregateDiscountPercent, perSkuDiscountPercent)

calculateDifferenceDiscount(aggregateDiscountPercent, perSkuDiscountPercent) ==
    IF JsLe(aggregateDiscountPercent, perSkuDiscountPercent) THEN Zero
    ELSE IF JsStrictEq(perSkuDiscountPercent, Zero) THEN aggregateDiscountPercent
    ELSE LET baseMultiplier == JsSub(One, JsDiv(perSkuDiscountPercent, Hundred))
             targetMultiplier == JsSub(One, JsDiv(aggregateDiscountPercent, Hundred))
             additionalMultiplier == JsDiv(targetMultiplier, baseMultiplier)
             additionalDiscountPercent == JsMul(JsSub(One, additionalMultiplier), Hundred)
         IN  JsDiv(MathRound(JsMul(additionalDiscountPercent, Hundred)), Hundred)

(***************************************************************************)
(* Price-anchored engine (src/extensions/b2b-test/src/run.js).             *)
(***************************************************************************)

\* The comparator (a, b) => b.min - a.min.
PA_CompareTiers(a, b) == JsSub(b.min, a.min)

RECURSIVE PA_InsertTier(_, _)
PA_InsertTier(x, s) ==
    IF s = <<>> THEN <<x>>
    ELSE IF JsLt(PA_CompareTiers(x, Head(s)), Zero) THEN <<x>> \o s
    ELSE <<Head(s)>> \o PA_InsertTier(x, Tail(s))

RECURSIVE PA_SortTiersFrom(_, _)
PA_SortTiersFrom(s, acc) ==
    IF s = <<>> THEN acc ELSE PA_SortTiersFrom(Tail(s), PA_InsertTier(Head(s), acc))

PA_SortTiers(s) == PA_SortTiersFrom(s, <<>>)

PA_TiersAfterSort(tiers) == tiers

RECURSIVE PA_FirstTierMet(_, _)
PA_FirstTierMet(sorted, quantity) ==
    IF sorted = <<>> THEN [found |-> FALSE, tier |-> NoTier]
    ELSE IF JsGe(quantity, Head(sorted).min)
         THEN [found |-> TRUE, tier |-> Head(sorted)]
    ELSE PA_FirstTierMet(Tail(sorted), quantity)

\* getTierForQuantity(tiers, quantity) of run.js: null for a missing or empty list; a
\* number has no length and is not iterable, so the spread throws.
PA_getTierForQuantity(tiers, quantity) ==
    IF tiers.k = "absent" \/ (tiers.k = "list" /\ Len(tiers.items) = 0)
    THEN [threw |-> FALSE, found |-> FALSE, tier |-> NoTier, tiers |-> tiers]
    ELSE IF tiers.k # "list"
    THEN [threw |-> TRUE, found |-> FALSE, tier |-> NoTier, tiers |-> tiers]
    ELSE LET hit == PA_FirstTierMet(PA_SortTiers(tiers.items), quantity)
         IN  [threw |-> FALSE, found |-> hit.found, tier |-> hit.tier,
              tiers |-> TiersList(PA_TiersAfterSort(tiers.items))]

calculateDiscountPercent(currentPrice, targetPrice) ==
    IF JsLe(currentPrice, targetPrice) THEN Zero
    ELSE LET discount == JsMul(JsDiv(JsSub(currentPrice, targetPrice), currentPrice), Hundred)
         IN  JsDiv(MathRound(JsMul(discount, Hundred)), Hundred)

(***************************************************************************)
(* Inputs of run.                                                          *)
(*   input.cart: present or not; its buyerIdentity's catalog title; its    *)
(*   lines, present or not.  input.shopMetafield: the shop metafield the   *)
(*   engine's input query selects (shop.metafield in part_000,             *)
(*   shop.tierConfigMetafield in run.js).                                  *)
(***************************************************************************)

\* A catalog title, by what getCatalogType asks of it: whether there is one, and
\* whether its lower-case form includes "reseller" and "guidefitter".
NoTitle == [present |-> FALSE, reseller |-> FALSE, guidefitter |-> FALSE]
Title(r, g) == [present |-> TRUE, reseller |-> r, guidefitter |-> g]

\* A configuration entry of one catalog, and a parsed configuration document.
NoEntry == [k |-> "absent", tiers |-> TiersAbsent, base_percent |-> Undefined]
Entry(tiers, base) == [k |-> "object", tiers |-> tiers, base_percent |-> base]
JsonNull == [k |-> "null", guidefitters |-> NoEntry, resellers |-> NoEntry]
JsonNumber == [k |-> "number", guidefitters |-> NoEntry, resellers |-> NoEntry]
JsonObject(g, r) == [k |-> "object", guidefitters |-> g, resellers |-> r]

\* A shop metafield: absent, with an empty value, or with a text that is valid JSON
\* for the document val or is not valid JSON.
NoMetafield == [k |-> "absent", valid |-> FALSE, val |-> JsonNull]
EmptyMetafield == [k |-> "empty", valid |-> FALSE, val |-> JsonNull]
BadMetafield == [k |-> "text", valid |-> FALSE, val |-> JsonNull]
Metafield(val) == [k |-> "text", valid |-> TRUE, val |-> val]

\* JSON.parse(text): the document, or a SyntaxError.
JSONparse(shopMetafield) == [threw |-> ~shopMetafield.valid, val |-> shopMetafield.val]

\* A cart line; null |-> TRUE is a null element of cart.lines.
Line(tag, quantity, listPrice, amount) ==
    [null |-> FALSE, id |-> 0, hasAnyTag |-> tag, quantity |-> quantity,
     listPrice |-> listPrice, amount |-> amount]
NullLine == [null |-> TRUE, id |-> 0, hasAnyTag |-> FALSE, quantity |-> Undefined,
             listPrice |-> NoStr, amount |-> NoStr]

Return(discounts) == [kind |-> "return", discounts |-> discounts]
Throw == [kind |-> "throw", discounts |-> <<>>]

\* A discount directive: the units in the message, the targeted line and the value text.
Discount(units, id, value) ==
    [message |-> toString(units), target |-> id, value |-> toString(value)]

RECURSIVE SumQuantity(_)
SumQuantity(lines) ==
    IF lines = <<>> THEN Zero
    ELSE JsAdd(SumQuantity(SubSeq(lines, 1, Len(lines) - 1)), lines[Len(lines)].quantity)

HasNullLine(lines) == \E i \in DOMAIN lines : lines[i].null

(***************************************************************************)
(* run of the percent-differential engine (src/unnamed/part_000).          *)
(***************************************************************************)
DEFAULT_CONFIG ==
    JsonObject(Entry(TiersList(<<Tier(Int2Num(12), Dec2(1407)), Tier(Int2Num(48), Dec2(2950))>>),
                     Undefined),
               Entry(TiersList(<<Tier(Int2Num(48), Dec2(910))>>), Undefined))

\* getConfig(shopMetafield): the parsed document, or the DEFAULT_CONFIG object itself.
getConfig(shopMetafield, dflt) ==
    IF shopMetafield.k = "text" /\ ~JSONparse(shopMetafield).threw
    THEN [val |-> JSONparse(shopMetafield).val, isDefault |-> FALSE]
    ELSE [val |-> dflt, isDefault |-> TRUE]

getCatalogType(title) ==
    IF ~title.present THEN "null"
    ELSE IF title.reseller THEN "resellers"
    ELSE IF title.guidefitter THEN "guidefitters"
    ELSE "guidefitters"

CatalogEntry(config, catalogType) ==
    IF config.k # "object" THEN NoEntry
    ELSE IF catalogType = "resellers" THEN config.resellers ELSE config.guidefitters

WithTiers(config, catalogType, tiers) ==
    IF catalogType = "resellers"
    THEN [config EXCEPT !.resellers.tiers = tiers]
    ELSE [config EXCEPT !.guidefitters.tiers = tiers]

\* The loop over eligibleLines; tiers is the catalog's list, which every
\* getTierForQuantity call is handed and leaves behind.
RECURSIVE PerLineDiscounts(_, _, _, _)
PerLineDiscounts(eligibleLines, tiers, aggregateTier, totalEligibleQuantity) ==
    IF eligibleLines = <<>> THEN [discounts |-> <<>>, tiers |-> tiers]
    ELSE LET line == Head(eligibleLines)
             perSkuTier == getTierForQuantity(tiers, line.quantity)
             perSkuDiscount == IF perSkuTier.found THEN perSkuTier.tier.discount_percent
                               ELSE Zero
             discountToApply ==
                 calculateDifferenceDiscount(aggregateTier.discount_percent, perSkuDiscount)
             rest == PerLineDiscounts(Tail(eligibleLines), perSkuTier.tiers, aggregateTier,
                                      totalEligibleQuantity)
         IN  [discounts |->
                  (IF JsGt(discountToApply, Zero)
                   THEN <<Discount(totalEligibleQuantity, line.id, discountToApply)>>
                   ELSE <<>>) \o rest.discounts,
              tiers |-> rest.tiers]

Tagged(line) == line.hasAnyTag

\* run(input), with dflt the DEFAULT_CONFIG object as the call finds it; the result is
\* the outcome and that object as the call leaves it.
run(inp, dflt) ==
    LET catalogType == getCatalogType(IF inp.cart.present THEN inp.cart.title ELSE NoTitle)
        config == getConfig(inp.shopMetafield, dflt)
        catalogConfig == CatalogEntry(config.val, catalogType)
        eligibleLines == SelectSeq(inp.cart.lines, Tagged)
        totalEligibleQuantity == SumQuantity(eligibleLines)
        aggregateTier == getTierForQuantity(catalogConfig.tiers, totalEligibleQuantity)
        perLine == PerLineDiscounts(eligibleLines, aggregateTier.tiers, aggregateTier.tier,
                                    totalEligibleQuantity)
        Left(tiers) == IF config.isDefault THEN WithTiers(dflt, catalogType, tiers) ELSE dflt
    IN  IF catalogType = "null" THEN [out |-> Return(<<>>), dflt |-> dflt]
        ELSE IF config.val.k = "null" THEN [out |-> Throw, dflt |-> dflt]
        ELSE IF \/ catalogConfig.k = "absent"
                \/ catalogConfig.tiers.k = "absent"
                \/ (catalogConfig.tiers.k = "list" /\ Len(catalogConfig.tiers.items) = 0)
             THEN [out |-> Return(<<>>), dflt |-> dflt]
        ELSE IF ~inp.cart.linesPresent \/ HasNullLine(inp.cart.lines)
             THEN [out |-> Throw, dflt |-> dflt]
        ELSE IF Len(eligibleLines) = 0 \/ JsStrictEq(totalEligibleQuantity, Zero)
             THEN [out |-> Return(<<>>), dflt |-> dflt]
        ELSE IF aggregateTier.threw THEN [out |-> Throw, dflt |-> dflt]
        ELSE IF ~aggregateTier.found
             THEN [out |-> Return(<<>>), dflt |-> Left(aggregateTier.tiers)]
        ELSE [out |-> Return(perLine.discounts), dflt |-> Left(perLine.tiers)]

(***************************************************************************)
(* run of the price-anchored engine (src/extensions/b2b-test/src/run.js).  *)
(***************************************************************************)

\* getTierConfig(shopMetafield): the parsed document, or null.
getTierConfig(shopMetafield) ==
    IF shopMetafield.k # "text" THEN JsonNull
    ELSE IF JSONparse(shopMetafield).threw THEN JsonNull
    ELSE JSONparse(shopMetafield).val

PA_getCatalogType(title) ==
    IF ~title.present THEN "null"
    ELSE IF title.reseller THEN "resellers"
    ELSE IF title.guidefitter THEN "guidefitters"
    ELSE "guidefitters"

\* The test of the scan loop: the line is tagged and passes both price checks.
PA_Eligible(line) ==
    /\ line.hasAnyTag
    /\ ~(~StrTruthy(line.listPrice) \/ IsNaNish(parseFloat(line.listPrice)))
    /\ ~(~StrTruthy(line.amount) \/ IsNaNish(parseFloat(line.amount)))

RECURSIVE PA_PerLineDiscounts(_, _, _)
PA_PerLineDiscounts(eligibleLines, aggregatePercent, aggregateQuantity) ==
    IF eligibleLines = <<>> THEN <<>>
    ELSE LET line == Head(eligibleLines)
             targetPrice == JsMul(parseFloat(line.listPrice),
                                  JsSub(One, JsDiv(aggregatePercent, Hundred)))
             discountPercent == calculateDiscountPercent(parseFloat(line.amount), targetPrice)
         IN  (IF JsGt(discountPercent, Zero)
              THEN <<Discount(aggregateQuantity, line.id, discountPercent)>>
              ELSE <<>>)
             \o PA_PerLineDiscounts(Tail(eligibleLines), aggregatePercent, aggregateQuantity)

PA_run(inp) ==
    LET catalogType == PA_getCatalogType(IF inp.cart.present THEN inp.cart.title ELSE NoTitle)
        config == getTierConfig(inp.shopMetafield)
        catalogConfig == CatalogEntry(config, catalogType)
        eligibleLines == SelectSeq(inp.cart.lines, PA_Eligible)
        aggregateQuantity == SumQuantity(eligibleLines)
        aggregateTier == PA_getTierForQuantity(catalogConfig.tiers, aggregateQuantity)
        aggregatePercent == IF aggregateTier.found THEN aggregateTier.tier.percent
                            ELSE catalogConfig.base_percent
    IN  IF catalogType = "null" THEN Return(<<>>)
        ELSE IF config.k = "null" THEN Return(<<>>)
        ELSE IF catalogConfig.k = "absent" THEN Return(<<>>)
        ELSE IF ~inp.cart.linesPresent \/ HasNullLine(inp.cart.lines) THEN Throw
        ELSE IF Len(eligibleLines) = 0 \/ JsStrictEq(aggregateQuantity, Zero)
             THEN Return(<<>>)
        ELSE IF aggregateTier.threw THEN Throw
        ELSE Return(PA_PerLineDiscounts(eligibleLines, aggregatePercent, aggregateQuantity))

(***************************************************************************)
(* The inputs of the evaluations under study.                              *)
(***************************************************************************)
Titles == {NoTitle, Title(TRUE, FALSE), Title(FALSE, TRUE), Title(FALSE, FALSE)}

\* Lines of the percent-differential engine, which reads the tag and the quantity.
DiffLines ==
    {Line(TRUE, q, NoStr, NoStr) :
         q \in {Int2Num(-6), Zero, Int2Num(6), Int2Num(12), Int2Num(20), Int2Num(30),
                Undefined}}
    \cup {Line(FALSE, Int2Num(30), NoStr, NoStr), NullLine}

\* Lines of the price-anchored engine, which also reads the two prices.
PriceLines ==
    {Line(TRUE, Int2Num(6), DecStr(Int2Num(10)), DecStr(Dec2(780))),
     Line(TRUE, Int2Num(12), DecStr(Int2Num(10)), DecStr(Dec2(780))),
     Line(TRUE, Int2Num(6), DecStr(Int2Num(10)), DecStr(Int2Num(10))),
     Line(TRUE, Int2Num(6), DecStr(Int2Num(10)), DecStr(Int2Num(5))),
     Line(TRUE, Int2Num(6), DecStr(Int2Num(10)), NoStr),
     Line(TRUE, Int2Num(6), TextStr, DecStr(Dec2(780))),
     Line(TRUE, Int2Num(6), DecStr(Zero), DecStr(Dec2(780))),
     Line(TRUE, Int2Num(6), DecStr(Int2Num(-10)), DecStr(Dec2(780))),
     Line(FALSE, Int2Num(12), DecStr(Int2Num(10)), DecStr(Dec2(780))),
     NullLine}

WithIds(lines) == [i \in DOMAIN lines |-> [lines[i] EXCEPT !.id = i]]
CartsOf(lineSet) == {WithIds(f) : f \in UNION {[1..n -> lineSet] : n \in 0..MaxLines}}

Cart(title, lines) == [present |-> TRUE, title |-> title, linesPresent |-> TRUE, lines |-> lines]
CartWithoutLines(title) ==
    [present |-> TRUE, title |-> title, linesPresent |-> FALSE, lines |-> <<>>]
NoCart == [present |-> FALSE, title |-> NoTitle, linesPresent |-> FALSE, lines |-> <<>>]

CartsFrom(lineSet) ==
    {Cart(t, l) : t \in Titles, l \in CartsOf(lineSet)}
    \cup {CartWithoutLines(t) : t \in Titles}
    \cup {NoCart}

\* Configuration documents in the format of part_000 (min_quantity, discount_percent).
ReadmeConfig ==
    JsonObject(Entry(TiersList(<<Tier(Int2Num(48), Dec2(2950)), Tier(Int2Num(12), Dec2(1407))>>),
                     Undefined),
               Entry(TiersList(<<Tier(Int2Num(48), Dec2(910))>>), Undefined))
CloseTiersConfig ==
    JsonObject(Entry(TiersList(<<Tier(Int2Num(12), Dec2(1407)),
                                 Tier(Int2Num(48), Num(14071, 1000))>>), Undefined),
               Entry(TiersAbsent, Undefined))
FineTierConfig ==
    JsonObject(Entry(TiersList(<<Tier(Int2Num(12), Num(14075, 1000))>>), Undefined),
               Entry(TiersNumber, Undefined))
OddTiersConfig ==
    JsonObject(Entry(TiersList(<<Tier(Undefined, Int2Num(10)), Tier(Int2Num(12), Int2Num(150))>>),
                     Undefined),
               Entry(TiersList(<<>>), Undefined))
NegativeTierConfig ==
    JsonObject(Entry(TiersList(<<Tier(Int2Num(-5), Int2Num(10)), Tier(Int2Num(12), Undefined)>>),
                     Undefined),
               NoEntry)

\* Configuration documents in the format of run.js (min, percent, base_percent).
PA_DocumentedConfig ==
    JsonObject(Entry(TiersList(<<PA_Tier(Int2Num(12), Int2Num(33)),
                                 PA_Tier(Int2Num(48), Int2Num(45))>>), Int2Num(22)),
               Entry(TiersList(<<PA_Tier(Int2Num(48), Int2Num(50))>>), Int2Num(45)))
PA_OddConfig ==
    JsonObject(Entry(TiersNumber, Int2Num(22)),
               Entry(TiersAbsent, Undefined))
PA_LowBaseConfig ==
    JsonObject(Entry(TiersList(<<PA_Tier(Int2Num(48), Int2Num(45)),
                                 PA_Tier(Int2Num(12), Int2Num(33))>>), Int2Num(10)),
               Entry(TiersList(<<>>), Int2Num(10)))

DiffMetafields ==
    {NoMetafield, BadMetafield}
    \cup {Metafield(c) : c \in {JsonNull, JsonObject(NoEntry, NoEntry), ReadmeConfig,
                                CloseTiersConfig, FineTierConfig, OddTiersConfig,
                                NegativeTierConfig}}
PriceMetafields ==
    {EmptyMetafield, BadMetafield}
    \cup {Metafield(c) : c \in {JsonNull, JsonNumber, PA_DocumentedConfig, PA_OddConfig,
                                PA_LowBaseConfig}}

DiffInputs == [cart : CartsFrom(DiffLines), shopMetafield : DiffMetafields]
PriceInputs == [cart : CartsFrom(PriceLines), shopMetafield : PriceMetafields]

\* Other carts evaluated in between by the percent-differential engine, the one with
\* a module-level object.
OtherInputs ==
    {[cart |-> Cart(Title(FALSE, TRUE),
                    WithIds(<<Line(TRUE, Int2Num(6), NoStr, NoStr),
                              Line(TRUE, Int2Num(6), NoStr, NoStr)>>)),
      shopMetafield |-> NoMetafield],
     [cart |-> Cart(Title(TRUE, FALSE), WithIds(<<Line(TRUE, Int2Num(50), NoStr, NoStr)>>)),
      shopMetafield |-> BadMetafield],
     [cart |-> Cart(Title(FALSE, TRUE), WithIds(<<Line(TRUE, Int2Num(30), NoStr, NoStr)>>)),
      shopMetafield |-> Metafield(ReadmeConfig)]}

(***************************************************************************)
(* Study of the calculators: a call with arguments from bounded sets.      *)
(***************************************************************************)
PctGrid == {Num(k, GridDen) : k \in 0..(100 * GridDen - 1)}
PctTwoDigit == {Dec2(910), Dec2(1407), Dec2(1408), Dec2(2950), Dec2(9999)}
PctFine == {Num(14071, 1000), Num(14075, 1000)}
PctOdd == {Int2Num(-10), Hundred, Int2Num(150), Undefined, NaN}
PctPairs == ((PctGrid \cup PctTwoDigit \cup PctOdd) \X (PctGrid \cup PctTwoDigit \cup PctOdd))
            \cup ((PctTwoDigit \cup PctFine \cup PctOdd) \X (PctTwoDigit \cup PctFine \cup PctOdd))
PriceArgs == {Int2Num(-10), Int2Num(-5), Zero, Int2Num(6), Dec2(670), Dec2(780), Int2Num(10),
              NaN, PosInf}

NoCalc == [fn |-> "none", x |-> Zero, y |-> Zero]
NoCalcResult == [done |-> FALSE, d |-> Zero]
NoTierArgs == [fn |-> "none", tiers |-> TiersAbsent, quantity |-> Zero]
NoTierResult == [done |-> FALSE, threw |-> FALSE, found |-> FALSE, tier |-> NoTier,
                 tiers |-> TiersAbsent]
NoInput == [cart |-> NoCart, shopMetafield |-> NoMetafield]
NoResult == [kind |-> "none", discounts |-> <<>>]

CalcInit ==
    /\ calcArgs \in ({[fn |-> "difference", x |-> a[1], y |-> a[2]] : a \in PctPairs}
                     \cup [fn : {"percent"}, x : PriceArgs, y : PriceArgs])
    /\ calcResult = NoCalcResult
    /\ tierArgs = NoTierArgs
    /\ tierResult = NoTierResult
    /\ engine = "none"
    /\ input = NoInput
    /\ pc = "idle"
    /\ result = NoResult
    /\ firstResult = NoResult
    /\ runs = 0
    /\ otherRuns = 0
    /\ defaultConfig = DEFAULT_CONFIG

\* calculateDifferenceDiscount(x, y) is called: x the aggregate percent, y the per-SKU percent.
CallDifferenceDiscount ==
    /\ calcArgs.fn = "difference"
    /\ ~calcResult.done
    /\ calcResult' = [done |-> TRUE, d |-> calculateDifferenceDiscount(calcArgs.x, calcArgs.y)]
    /\ UNCHANGED <<calcArgs, tierVars, runVars>>

\* calculateDiscountPercent(x, y) is called: x the current price, y the target price.
CallDiscountPercent ==
    /\ calcArgs.fn = "percent"
    /\ ~calcResult.done
    /\ calcResult' = [done |-> TRUE, d |-> calculateDiscountPercent(calcArgs.x, calcArgs.y)]
    /\ UNCHANGED <<calcArgs, tierVars, runVars>>

CalcNext == CallDifferenceDiscount \/ CallDiscountPercent

SpecCalc == CalcInit /\ [][CalcNext]_vars

(***************************************************************************)
(* Study of the tier resolvers: a call on a tier table with distinct       *)
(* thresholds, in any order.                                               *)
(***************************************************************************)
Thresholds == {-5, 0, 6, 12, 48}
Quantities == {Int2Num(q) : q \in {-6, 0, 5, 6, 11, 12, 13, 47, 48, 50}} \cup {NaN}
\* The percent that goes with a threshold in the tables of the study.
PercentAt(m) == Num(m + 10, 2)

Injective(f) == \A i, j \in DOMAIN f : i # j => f[i] # f[j]
ThresholdLists == {f \in UNION {[1..n -> Thresholds] : n \in 0..MaxTiers} : Injective(f)}
TierTable(f) == [i \in DOMAIN f |-> Tier(Int2Num(f[i]), PercentAt(f[i]))]
PA_TierTable(f) == [i \in DOMAIN f |-> PA_Tier(Int2Num(f[i]), PercentAt(f[i]))]

TierInit ==
    /\ tierArgs \in ({[fn |-> "diff", tiers |-> TiersList(TierTable(f)), quantity |-> q] :
                          f \in ThresholdLists, q \in Quantities}
                     \cup {[fn |-> "price", tiers |-> TiersList(PA_TierTable(f)), quantity |-> q] :
                          f \in ThresholdLists, q \in Quantities})
    /\ tierResult = NoTierResult
    /\ calcArgs = NoCalc
    /\ calcResult = NoCalcResult
    /\ engine = "none"
    /\ input = NoInput
    /\ pc = "idle"
    /\ result = NoResult
    /\ firstResult = NoResult
    /\ runs = 0
    /\ otherRuns = 0
    /\ defaultConfig = DEFAULT_CONFIG

Resolved(r) == [done |-> TRUE, threw |-> r.threw, found |-> r.found, tier |-> r.tier,
                tiers |-> r.tiers]

\* getTierForQuantity of part_000 is called.
CallGetTierForQuantity ==
    /\ tierArgs.fn = "diff"
    /\ ~tierResult.done
    /\ tierResult' = Resolved(getTierForQuantity(tierArgs.tiers, tierArgs.quantity))
    /\ UNCHANGED <<tierArgs, calcVars, runVars>>

\* getTierForQuantity of run.js is called.
PA_CallGetTierForQuantity ==
    /\ tierArgs.fn = "price"
    /\ ~tierResult.done
    /\ tierResult' = Resolved(PA_getTierForQuantity(tierArgs.tiers, tierArgs.quantity))
    /\ UNCHANGED <<tierArgs, calcVars, runVars>>

TierNext == CallGetTierForQuantity \/ PA_CallGetTierForQuantity

SpecTier == TierInit /\ [][TierNext]_vars

(***************************************************************************)
(* The evaluations: run is called on the input under study, again on the   *)
(* same input, and on other carts in between.  DEFAULT_CONFIG is the one   *)
(* object that outlives a call.                                            *)
(***************************************************************************)
Init ==
    /\ \/ engine = "diff" /\ input \in DiffInputs
       \/ engine = "price" /\ input \in PriceInputs
    /\ pc = "ready"
    /\ result = NoResult
    /\ firstResult = NoResult
    /\ runs = 0
    /\ otherRuns = 0
    /\ defaultConfig = DEFAULT_CONFIG
    /\ calcArgs = NoCalc
    /\ calcResult = NoCalcResult
    /\ tierArgs = NoTierArgs
    /\ tierResult = NoTierResult

\* run of part_000 is called on the input.
Run ==
    /\ engine = "diff"
    /\ runs < MaxRuns
    /\ LET r == run(input, defaultConfig)
       IN  /\ result' = r.out
           /\ firstResult' = IF runs = 0 THEN r.out ELSE firstResult
           /\ defaultConfig' = r.dflt
    /\ runs' = runs + 1
    /\ pc' = "done"
    /\ UNCHANGED <<engine, input, otherRuns, calcVars, tierVars>>

\* run of run.js is called on the input.
PA_Run ==
    /\ engine = "price"
    /\ runs < MaxRuns
    /\ LET r == PA_run(input)
       IN  /\ result' = r
           /\ firstResult' = IF runs = 0 THEN r ELSE firstResult
    /\ runs' = runs + 1
    /\ pc' = "done"
    /\ UNCHANGED <<engine, input, otherRuns, defaultConfig, calcVars, tierVars>>

\* run of part_000 is called on another cart; its result goes to that cart's caller.
RunOther ==
    /\ engine = "diff"
    /\ otherRuns < MaxOtherRuns
    /\ \E other \in OtherInputs : defaultConfig' = run(other, defaultConfig).dflt
    /\ otherRuns' = otherRuns + 1
    /\ UNCHANGED <<engine, input, pc, result, firstResult, runs, calcVars, tierVars>>

Next == Run \/ PA_Run \/ RunOther

Spec == Init /\ [][Next]_vars

(***************************************************************************)
(* Properties of the calculators (checked under SpecCalc).                 *)
(***************************************************************************)
\* The fraction of a price that a discount of pct percent retains.
Retained(pct) == JsSub(One, JsDiv(pct, Hundred))

DifferenceCalled == calcArgs.fn = "difference" /\ calcResult.done
InTierRange(pct) == IsNum(pct) /\ JsLe(Zero, pct) /\ JsLt(pct, Hundred)

\* C1: for 0 <= perLinePercent <= aggregatePercent < 100, with d the value returned by
\* calculateDifferenceDiscount(aggregatePercent, perLinePercent), applying perLinePercent
\* and then d to a unit price gives the price that aggregatePercent gives directly,
\* within 0.01.
C1_ComposesMultiplicatively ==
    (/\ DifferenceCalled
     /\ InTierRange(calcArgs.x)
     /\ InTierRange(calcArgs.y)
     /\ JsLe(calcArgs.y, calcArgs.x))
    => JsLe(JsAbs(JsSub(JsMul(Retained(calcArgs.y), Retained(calcResult.d)),
                        Retained(calcArgs.x))),
            Dec2(1))

\* A call with 14.07 already applied and 29.5 to reach: the result is 17.96.
C1_Witness ==
    /\ DifferenceCalled
    /\ calcArgs.x = Dec2(2950)
    /\ calcArgs.y = Dec2(1407)
    /\ calcResult.d = Dec2(1796)

\* C6: both calculators return, for every input, a number d with 0 <= d < 100.
C6_ResultInRange ==
    calcResult.done
    => (IsNum(calcResult.d) /\ JsLe(Zero, calcResult.d) /\ JsLt(calcResult.d, Hundred))

(***************************************************************************)
(* Properties of the tier resolvers (checked under SpecTier).              *)
(***************************************************************************)
Threshold(tier) == IF tierArgs.fn = "diff" THEN tier.min_quantity ELSE tier.min
Resolve(items) ==
    IF tierArgs.fn = "diff" THEN getTierForQuantity(TiersList(items), tierArgs.quantity)
    ELSE PA_getTierForQuantity(TiersList(items), tierArgs.quantity)
Reordered(items, perm) == [i \in DOMAIN items |-> items[perm[i]]]

\* C7: getTierForQuantity returns the tier with the largest threshold among those whose
\* threshold is <= the quantity, and none when there is no such tier; every permutation
\* of the list gives the same answer; the list handed in keeps its order.
C7_HighestThresholdMet ==
    tierResult.done =>
        LET items == tierArgs.tiers.items
            met == {i \in DOMAIN items : JsLe(Threshold(items[i]), tierArgs.quantity)}
        IN  /\ ~tierResult.threw
            /\ tierResult.found = (met # {})
            /\ tierResult.found =>
                   \E i \in met :
                       /\ tierResult.tier = items[i]
                       /\ \A j \in met : JsLe(Threshold(items[j]), Threshold(items[i]))
            /\ \A perm \in Permutations(DOMAIN items) :
                   LET r == Resolve(Reordered(items, perm))
                   IN  r.found = tierResult.found /\ r.tier = tierResult.tier
            /\ tierResult.tiers = tierArgs.tiers

\* A table given in ascending order, with two thresholds met: the higher one is returned.
C7_Witness ==
    /\ tierResult.done
    /\ tierResult.found
    /\ Len(tierArgs.tiers.items) >= 2
    /\ JsLt(Threshold(tierArgs.tiers.items[1]), Threshold(tierArgs.tiers.items[2]))
    /\ JsGe(tierArgs.quantity, Threshold(tierArgs.tiers.items[2]))
    /\ tierResult.tier = tierArgs.tiers.items[2]
    /\ tierArgs.fn = "diff"

(***************************************************************************)
(* Properties of run (checked under Spec).                                 *)
(***************************************************************************)
Done == pc = "done"
Returned == Done /\ result.kind = "return"

\* The buyer's segment, the configuration document the metafield carries (if it parses)
\* and the document the engine is to work from according to the specification: the
\* built-in default table when the metafield is absent or does not parse.
Segment == getCatalogType(IF input.cart.present THEN input.cart.title ELSE NoTitle)
Unparsable == input.shopMetafield.k # "text" \/ ~input.shopMetafield.valid
PA_DefaultTable ==
    JsonObject(Entry(TiersList(<<PA_Tier(Int2Num(12), Dec2(1407)),
                                 PA_Tier(Int2Num(48), Dec2(2950))>>), Undefined),
               Entry(TiersList(<<PA_Tier(Int2Num(48), Dec2(910))>>), Undefined))
BuiltInTable == IF engine = "diff" THEN DEFAULT_CONFIG ELSE PA_DefaultTable
Document == IF Unparsable THEN BuiltInTable ELSE input.shopMetafield.val
SegmentEntry == CatalogEntry(Document, Segment)
HasTierTable(entry) ==
    entry.k = "object" /\ entry.tiers.k = "list" /\ Len(entry.tiers.items) > 0
TierItems == SegmentEntry.tiers.items
ThresholdOf(tier) == IF engine = "diff" THEN tier.min_quantity ELSE tier.min
PercentOf(tier) == IF engine = "diff" THEN tier.discount_percent ELSE tier.percent

\* The tier table obeys the data model: thresholds are distinct positive numbers and
\* percents are numbers in [0, 100).
ValidTierTable ==
    /\ HasTierTable(SegmentEntry)
    /\ \A i \in DOMAIN TierItems :
           /\ IsNum(ThresholdOf(TierItems[i]))
           /\ JsGt(ThresholdOf(TierItems[i]), Zero)
           /\ InTierRange(PercentOf(TierItems[i]))
    /\ \A i, j \in DOMAIN TierItems :
           i # j => ThresholdOf(TierItems[i]) # ThresholdOf(TierItems[j])

\* The tiers a quantity reaches, and whether tier i is the highest of them.
Reached(q) == {i \in DOMAIN TierItems : JsLe(ThresholdOf(TierItems[i]), q)}
Highest(i, q) ==
    i \in Reached(q)
    /\ \A j \in Reached(q) : JsLe(ThresholdOf(TierItems[j]), ThresholdOf(TierItems[i]))

\* Eligibility as the specification defines it: the tag and, in the price-anchored
\* engine, a valid positive list price and a valid current price.
SpecEligible(line) ==
    /\ ~line.null
    /\ line.hasAnyTag
    /\ engine = "price" =>
           /\ line.listPrice.k = "dec"
           /\ IsNum(line.listPrice.v)
           /\ JsGt(line.listPrice.v, Zero)
           /\ line.amount.k = "dec"
           /\ IsNum(line.amount.v)
Lines == input.cart.lines
EligibleQuantity == SumQuantity(SelectSeq(Lines, SpecEligible))
RecordsFor(i) == {k \in DOMAIN result.discounts : result.discounts[k].target = Lines[i].id}

\* The number a decimal text denotes.
RECURSIVE DigitsValue(_)
DigitsValue(digits) ==
    IF digits = <<>> THEN 0
    ELSE 10 * DigitsValue(SubSeq(digits, 1, Len(digits) - 1)) + digits[Len(digits)]
RECURSIVE Pow10(_)
Pow10(k) == IF k = 0 THEN 1 ELSE 10 * Pow10(k - 1)
TextValue(text) ==
    IF text.k # "dec" THEN NaN
    ELSE Num((IF text.neg THEN -1 ELSE 1)
                 * (text.whole * Pow10(Len(text.frac)) + DigitsValue(text.frac)),
             Pow10(Len(text.frac)))
ValuesOf(discounts) == [k \in DOMAIN discounts |-> TextValue(discounts[k].value)]

\* v is x rounded to 2 decimals, halves up.
IsRounded2(v, x) ==
    /\ IsNum(v)
    /\ 100 % v.d = 0
    /\ JsLe(JsSub(v, Num(1, 200)), x)
    /\ JsLt(x, JsAdd(v, Num(1, 200)))

\* The differential of the specification: (1 - (1 - a/100) / (1 - p/100)) * 100.
Differential(a, p) == JsMul(JsSub(One, JsDiv(Retained(a), Retained(p))), Hundred)

\* The cases C2 is about: the percent-differential engine has run on a cart of line
\* objects for a buyer whose segment has a tier table obeying the data model, and the
\* aggregate quantity of the tagged lines reaches a tier.  a is that tier's percent,
\* p line i's own.
DiffCase ==
    /\ engine = "diff"
    /\ Done
    /\ Segment # "null"
    /\ ValidTierTable
    /\ input.cart.linesPresent
    /\ ~HasNullLine(Lines)
    /\ Reached(EligibleQuantity) # {}
AggregatePercent ==
    LET i == CHOOSE i \in DOMAIN TierItems : Highest(i, EligibleQuantity)
    IN  PercentOf(TierItems[i])
OwnPercent(line) ==
    IF Reached(line.quantity) = {} THEN Zero
    ELSE LET i == CHOOSE i \in DOMAIN TierItems : Highest(i, line.quantity)
         IN  PercentOf(TierItems[i])

\* The carts of the README scenarios, for a Guidefitters buyer under the built-in tiers
\* {12: 14.07, 48: 29.5}.
ScenarioCart(q1, q2) ==
    [cart |-> Cart(Title(FALSE, TRUE),
                   WithIds(<<Line(TRUE, Int2Num(q1), NoStr, NoStr),
                             Line(TRUE, Int2Num(q2), NoStr, NoStr)>>)),
     shopMetafield |-> NoMetafield]
Scenario(q1, q2) == engine = "diff" /\ Done /\ input = ScenarioCart(q1, q2)
Targets(discounts) == [k \in DOMAIN discounts |-> discounts[k].target]

NoRecordWhenReached(i) ==
    JsLe(AggregatePercent, OwnPercent(Lines[i])) => RecordsFor(i) = {}
FullPercentFromBase(i) ==
    (OwnPercent(Lines[i]) = Zero /\ JsGt(AggregatePercent, Zero))
    => \E k \in RecordsFor(i) :
           /\ RecordsFor(i) = {k}
           /\ TextValue(result.discounts[k].value) = AggregatePercent

NoSegment == Segment = "null"
NoUsableConfiguration ==
    \/ engine = "price" /\ Unparsable
    \/ ~Unparsable /\ input.shopMetafield.val.k # "object"
    \/ IF engine = "diff" THEN ~HasTierTable(SegmentEntry) ELSE SegmentEntry.k = "absent"
WellFormedCart == input.cart.present /\ input.cart.linesPresent /\ ~HasNullLine(Lines)
NoEligibleLines == WellFormedCart /\ \A i \in DOMAIN Lines : ~SpecEligible(Lines[i])
ReachesNoTier ==
    WellFormedCart /\ SegmentEntry.tiers.k = "list" /\ Reached(EligibleQuantity) = {}

\* C3: run returns an empty discount list when the buyer has no segment, when there is
\* no usable configuration for the segment, when no line is eligible, and when the
\* aggregate eligible quantity reaches no tier, in either engine.
C3_EmptyWhenNotApplicable ==
    (Done /\ (NoSegment \/ NoUsableConfiguration \/ NoEligibleLines \/ ReachesNoTier))
    => result = Return(<<>>)

\* C4: for every input record, run ends by returning a discount list; it never ends in
\* an exception.
C4_AlwaysReturns == Done => result.kind = "return"

\* The input with the built-in default table as its configuration document.
WithBuiltInTable == [input EXCEPT !.shopMetafield = Metafield(BuiltInTable)]

\* C5: when the configuration payload is absent, does not parse or holds no usable tier
\* table, the evaluation computes the discounts of the built-in default tier table
\* (guidefitters {12: 14.07, 48: 29.5}, resellers {48: 9.1}).
C5_FallsBackToDefault ==
    (Done /\ ~NoSegment /\ (Unparsable \/ NoUsableConfiguration))
    => result = (IF engine = "diff" THEN run(WithBuiltInTable, DEFAULT_CONFIG).out
                 ELSE PA_run(WithBuiltInTable))

\* C8: every record targets a line that is eligible (tagged and, in the price-anchored
\* engine, with a valid positive list price and a valid current price), and the units
\* in its label are the sum of the quantities of the eligible lines.
C8_IneligibleInvisible ==
    Returned =>
        \A k \in DOMAIN result.discounts :
            /\ \E i \in DOMAIN Lines :
                   Lines[i].id = result.discounts[k].target /\ SpecEligible(Lines[i])
            /\ result.discounts[k].message = toString(EligibleQuantity)

\* C9: the percentage value of every directive run returns has at most 2 fraction
\* digits.
C9_TwoFractionDigits ==
    Returned =>
        \A k \in DOMAIN result.discounts :
            result.discounts[k].value.k = "dec" /\ Len(result.discounts[k].value.frac) <= 2

\* C10: however often run is called on an input, and whatever other carts are
\* evaluated in between, every call gives the result of the first one, and the
\* module-level default tier table stays as it was written.
C10_Stateless ==
    /\ defaultConfig = DEFAULT_CONFIG
    /\ runs >= 1 => result = firstResult

\* A cart priced from the default table, evaluated again after another cart's run.
C10_Witness ==
    /\ engine = "diff"
    /\ runs = MaxRuns
    /\ otherRuns >= 1
    /\ input.shopMetafield = NoMetafield
    /\ result.kind = "return"
    /\ Len(result.discounts) > 0

====
